---- MODULE Spec2Model ----
(***************************************************************************)
(* Model of tantivy's src/core/segment_meta.rs: SegmentMeta handles over   *)
(* records tracked by the process-wide INVENTORY, the operations that      *)
(* create, clone, evolve, list and drop them, and the files they name.     *)
(***************************************************************************)
EXTENDS Integers, Sequences, FiniteSets, TLC

VARIABLES
    records,    \* the InnerSegmentMeta values ever tracked, by allocation order
    inventory,  \* INVENTORY: the set of tracked records currently registered
    handles,    \* handles[t][r]: SegmentMeta handles to record r owned by thread t
    pc,         \* pc[t]: where thread t stands inside a call
    evo,        \* evo[t]: the locals of thread t's with_max_doc / with_delete_meta
    snap,       \* snap[t]: the handles INVENTORY.list() gave thread t's all()
    at_start,   \* at_start[t]: records with a live handle when t's all() was called
    created,    \* number of records registered so far (new, deserialize, evolve)
    released,   \* number of records whose last handle has been dropped
    disk,       \* files present in the directory
    deleted     \* files the last garbage collection removed

vars == <<records, inventory, handles, pc, evo, snap, at_start, created,
          released, disk, deleted>>

----------------------------------------------------------------------------
(* Bounds of the model. *)

NumThreads == 2
MaxRecs == 3
MaxRefs == 2

Threads == 1..NumThreads
SegmentIds == {1, 2}
MaxDocVals == {5, 100}
DeleteArgs == {<<10, 5>>, <<0, 0>>}

----------------------------------------------------------------------------
(* Values. Option<T> is a sequence of length 0 (None) or 1 (Some). *)

None == << >>
Some(x) == <<x>>

DeleteMeta(num_deleted_docs, opstamp) ==
    [num_deleted_docs |-> num_deleted_docs, opstamp |-> opstamp]

InnerSegmentMeta(segment_id, max_doc, deletes) ==
    [segment_id |-> segment_id, max_doc |-> max_doc, deletes |-> deletes]

\* InnerSegmentMeta::new starting with an empty DeleteMeta instead of none.
InnerNew_EmptyDeleteMeta(segment_id) ==
    InnerSegmentMeta(segment_id, 0, <<DeleteMeta(0, 0)>>)

InnerNew(segment_id) == InnerSegmentMeta(segment_id, 0, None)

\* The slot of a record whose memory has been released.
Freed == InnerSegmentMeta(0, 0, None)

----------------------------------------------------------------------------
(* Accessors of SegmentMeta, on the record a handle points to. *)

Id(m) == m.segment_id

MaxDoc(m) == m.max_doc

NumDeletedDocs(m) ==
    IF m.deletes = None THEN 0 ELSE m.deletes[1].num_deleted_docs

DeleteOpstamp(m) ==
    IF m.deletes = None THEN None ELSE Some(m.deletes[1].opstamp)

UnwrapOr(opt, dflt) == IF opt = None THEN dflt ELSE opt[1]

\* has_deletes testing the presence of the DeleteMeta.
HasDeletes_IsSome(m) == m.deletes # << >>

HasDeletes(m) == NumDeletedDocs(m) > 0

\* The u32 whose value is x modulo 2^32, for -2^31 < x < 2^31, as
\* <<high 16 bits, low 16 bits>>.
U32Value(x) ==
    IF x >= 0
    THEN <<x \div 65536, x % 65536>>
    ELSE LET k == (-x) - 1
         IN  <<65535 - (k \div 65536), 65535 - (k % 65536)>>

\* num_docs subtracting the other way round.
NumDocs_Swapped(m, overflow_checks) ==
    IF NumDeletedDocs(m) >= MaxDoc(m)
    THEN <<U32Value(NumDeletedDocs(m) - MaxDoc(m))>>
    ELSE IF overflow_checks
         THEN << >>
         ELSE <<U32Value(NumDeletedDocs(m) - MaxDoc(m))>>

\* u32 subtraction: a build with overflow checks panics on underflow (no
\* value, None), a build without them wraps modulo 2^32.
NumDocs(m, overflow_checks) ==
    IF MaxDoc(m) >= NumDeletedDocs(m)
    THEN Some(U32Value(MaxDoc(m) - NumDeletedDocs(m)))
    ELSE IF overflow_checks
         THEN None
         ELSE Some(U32Value(MaxDoc(m) - NumDeletedDocs(m)))

----------------------------------------------------------------------------
(* Files. *)

SegmentComponents ==
    {"POSITIONS", "POSTINGS", "TERMS", "STORE", "FASTFIELDS", "FIELDNORMS",
     "DELETE"}

\* SegmentId::uuid_string: 32 hexadecimal digits, distinct per id.
UuidString(segment_id) ==
    "0000000000000000000000000000000" \o ToString(segment_id)

\* relative_path naming the delete file without its opstamp.
RelativePath_NoOpstamp(m, component) ==
    UuidString(Id(m)) \o
        CASE component = "POSITIONS" -> ".pos"
          [] component = "POSTINGS" -> ".idx"
          [] component = "TERMS" -> ".term"
          [] component = "STORE" -> ".store"
          [] component = "FASTFIELDS" -> ".fast"
          [] component = "FIELDNORMS" -> ".fieldnorm"
          [] component = "DELETE" -> ".del"

RelativePath(m, component) ==
    UuidString(Id(m)) \o
        CASE component = "POSITIONS" -> ".pos"
          [] component = "POSTINGS" -> ".idx"
          [] component = "TERMS" -> ".term"
          [] component = "STORE" -> ".store"
          [] component = "FASTFIELDS" -> ".fast"
          [] component = "FIELDNORMS" -> ".fieldnorm"
          [] component = "DELETE" ->
                "." \o ToString(UnwrapOr(DeleteOpstamp(m), 0)) \o ".del"

\* list_files leaving the delete component out.
ListFiles_NoDelete(m) ==
    {RelativePath(m, c) : c \in SegmentComponents \ {"DELETE"}}

ListFiles(m) == {RelativePath(m, c) : c \in SegmentComponents}

----------------------------------------------------------------------------
(* Reference counts and the registry. *)

Recs == 1..Len(records)

\* Strong references to record r: handles owned by threads, the handle a
\* running evolution consumes, the one it is about to return, and the handles
\* of a snapshot not yet returned to its caller.
StrongCount(r) ==
    LET Owned[n \in 0..NumThreads] ==
            IF n = 0 THEN 0 ELSE Owned[n - 1] + handles[n][r]
        InCall(t) ==
            (IF pc[t] = "evolved" /\ evo[t].old = r THEN 1 ELSE 0)
          + (IF pc[t] = "evolved" /\ evo[t].new = r THEN 1 ELSE 0)
          + (IF r \in snap[t] THEN 1 ELSE 0)
        Calls[n \in 0..NumThreads] ==
            IF n = 0 THEN 0 ELSE Calls[n - 1] + InCall(n)
    IN  Owned[NumThreads] + Calls[NumThreads]

LiveRecs == {r \in Recs : StrongCount(r) > 0}

NoEvo == [kind |-> "none", old |-> 0, new |-> 0, arg |-> << >>]

Init ==
    /\ records = << >>
    /\ inventory = {}
    /\ handles = [t \in Threads |-> [r \in 1..MaxRecs |-> 0]]
    /\ pc = [t \in Threads |-> "idle"]
    /\ evo = [t \in Threads |-> NoEvo]
    /\ snap = [t \in Threads |-> {}]
    /\ at_start = [t \in Threads |-> {}]
    /\ created = 0
    /\ released = 0
    /\ disk = {}
    /\ deleted = {}

----------------------------------------------------------------------------
(* The registry's two operations on its entries. *)

\* Inventory::track: the record gets the next slot and is registered.
Track(inner) ==
    /\ records' = Append(records, inner)
    /\ inventory' = inventory \cup {Len(records) + 1}

\* Dropping one strong reference to r: the last one deregisters r and
\* releases the record.
DropStrong(r) ==
    IF StrongCount(r) = 1
    THEN /\ inventory' = inventory \ {r}
         /\ records' = [records EXCEPT ![r] = Freed]
         /\ released' = released + 1
    ELSE UNCHANGED <<inventory, records, released>>

OwnedCount(r) ==
    LET Owned[n \in 0..NumThreads] ==
            IF n = 0 THEN 0 ELSE Owned[n - 1] + handles[n][r]
    IN  Owned[NumThreads]

----------------------------------------------------------------------------
(* Serialized form: the fields of InnerSegmentMeta in declaration order,     *)
(* the optional DeleteMeta flattened to its two fields.                      *)

SerializeInner(m) ==
    <<m.segment_id, m.max_doc,
      IF m.deletes = None
      THEN << >>
      ELSE <<m.deletes[1].num_deleted_docs, m.deletes[1].opstamp>> >>

WellFormed(data) == Len(data) = 3 /\ Len(data[3]) \in {0, 2}

\* A deserializer reading the two fields of DeleteMeta in the wrong order.
DeserializeInner_SwapsDeleteFields(data) ==
    IF WellFormed(data)
    THEN <<InnerSegmentMeta(data[1], data[2],
                 IF data[3] = << >>
                 THEN << >>
                 ELSE <<DeleteMeta(data[3][2], data[3][1])>>)>>
    ELSE << >>

\* Ok(inner) as <<inner>>, Err as << >>.
DeserializeInner(data) ==
    IF WellFormed(data)
    THEN Some(InnerSegmentMeta(data[1], data[2],
                 IF data[3] = << >>
                 THEN None
                 ELSE Some(DeleteMeta(data[3][1], data[3][2]))))
    ELSE None

\* What a persisted manifest may hold besides what this process wrote.
PersistedInputs == {<<1, 5, <<10, 5>> >>, <<1, 5>>}

----------------------------------------------------------------------------
(* The closures handed to TrackedObject::map. *)

\* with_max_doc losing the delete metadata.
WithMaxDocInner_NoDeletes(inner_meta, max_doc) ==
    InnerSegmentMeta(inner_meta.segment_id, max_doc, None)

WithMaxDocInner(inner_meta, max_doc) ==
    LET inner_meta_clone == inner_meta
    IN  InnerSegmentMeta(inner_meta_clone.segment_id, max_doc,
                         inner_meta_clone.deletes)

\* with_delete_meta adding to the deletes already counted.
WithDeleteMetaInner_Merges(inner_meta, num_deleted_docs, opstamp) ==
    InnerSegmentMeta(inner_meta.segment_id, inner_meta.max_doc,
        Some(DeleteMeta(NumDeletedDocs(inner_meta) + num_deleted_docs,
                        opstamp)))

WithDeleteMetaInner(inner_meta, num_deleted_docs, opstamp) ==
    LET delete_meta == DeleteMeta(num_deleted_docs, opstamp)
    IN  InnerSegmentMeta(inner_meta.segment_id, inner_meta.max_doc,
                         Some(delete_meta))

----------------------------------------------------------------------------
(* Operations of a thread. *)

\* new with the call to INVENTORY.track left out.
New_Untracked(t, segment_id) ==
    /\ pc[t] = "idle"
    /\ Len(records) < MaxRecs
    /\ records' = Append(records, InnerNew(segment_id))
    /\ handles' = [handles EXCEPT ![t][Len(records) + 1] = 1]
    /\ created' = created + 1
    /\ UNCHANGED <<inventory, pc, evo, snap, at_start, released, disk, deleted>>

\* SegmentMeta::new
New(t, segment_id) ==
    /\ pc[t] = "idle"
    /\ Len(records) < MaxRecs
    /\ Track(InnerNew(segment_id))
    /\ handles' = [handles EXCEPT ![t][Len(records) + 1] = 1]
    /\ created' = created + 1
    /\ UNCHANGED <<pc, evo, snap, at_start, released, disk, deleted>>

\* impl Deserialize for SegmentMeta: an error tracks nothing.
Deserialize(t, data) ==
    /\ pc[t] = "idle"
    /\ Len(records) < MaxRecs
    /\ LET inner == DeserializeInner(data)
       IN  IF inner = None
           THEN UNCHANGED <<records, inventory, handles, created>>
           ELSE /\ Track(inner[1])
                /\ handles' = [handles EXCEPT ![t][Len(records) + 1] = 1]
                /\ created' = created + 1
    /\ UNCHANGED <<pc, evo, snap, at_start, released, disk, deleted>>

\* A clone that copies the record and tracks the copy.
Clone_Tracks(t, r) ==
    /\ pc[t] = "idle"
    /\ handles[t][r] > 0
    /\ Len(records) < MaxRecs
    /\ records' = Append(records, records[r])
    /\ inventory' = inventory \cup {Len(records) + 1}
    /\ handles' = [handles EXCEPT ![t][Len(records) + 1] = 1]
    /\ created' = created + 1
    /\ UNCHANGED <<pc, evo, snap, at_start, released, disk, deleted>>

\* #[derive(Clone)] on SegmentMeta
Clone(t, r) ==
    /\ pc[t] = "idle"
    /\ handles[t][r] > 0
    /\ OwnedCount(r) < MaxRefs
    /\ handles' = [handles EXCEPT ![t][r] = @ + 1]
    /\ UNCHANGED <<records, inventory, pc, evo, snap, at_start, created,
                   released, disk, deleted>>

\* A SegmentMeta handle goes out of scope.
Drop(t, r) ==
    /\ pc[t] = "idle"
    /\ handles[t][r] > 0
    /\ handles' = [handles EXCEPT ![t][r] = @ - 1]
    /\ DropStrong(r)
    /\ UNCHANGED <<pc, evo, snap, at_start, created, disk, deleted>>

\* An evolution that also writes the derived values into the record it was
\* derived from.
Evolve_InPlace(t, r, kind, arg, inner) ==
    /\ pc[t] = "idle"
    /\ handles[t][r] > 0
    /\ Len(records) < MaxRecs
    /\ records' = Append([records EXCEPT ![r] = inner], inner)
    /\ inventory' = inventory \cup {Len(records) + 1}
    /\ handles' = [handles EXCEPT ![t][r] = @ - 1]
    /\ evo' = [evo EXCEPT ![t] = [kind |-> kind, old |-> r,
                                  new |-> Len(records) + 1, arg |-> arg]]
    /\ pc' = [pc EXCEPT ![t] = "evolved"]
    /\ created' = created + 1
    /\ UNCHANGED <<snap, at_start, released, disk, deleted>>

\* An evolution that lets go of the consumed handle before the derived record
\* is tracked.
Evolve_DropFirst(t, r, kind, arg, inner) ==
    /\ pc[t] = "idle"
    /\ handles[t][r] > 0
    /\ Len(records) < MaxRecs
    /\ records' = Append(records, inner)
    /\ inventory' = IF StrongCount(r) = 1 THEN inventory \ {r} ELSE inventory
    /\ handles' = [handles EXCEPT ![t][r] = @ - 1]
    /\ evo' = [evo EXCEPT ![t] = [kind |-> kind, old |-> r,
                                  new |-> Len(records) + 1, arg |-> arg]]
    /\ pc' = [pc EXCEPT ![t] = "evolved"]
    /\ created' = created + 1
    /\ UNCHANGED <<snap, at_start, released, disk, deleted>>

\* with_max_doc / with_delete_meta up to the end of self.inner.map(..): the
\* handle is moved into the call and the derived record is tracked.
Evolve(t, r, kind, arg, inner) ==
    /\ pc[t] = "idle"
    /\ handles[t][r] > 0
    /\ Len(records) < MaxRecs
    /\ Track(inner)
    /\ handles' = [handles EXCEPT ![t][r] = @ - 1]
    /\ evo' = [evo EXCEPT ![t] = [kind |-> kind, old |-> r,
                                  new |-> Len(records) + 1, arg |-> arg]]
    /\ pc' = [pc EXCEPT ![t] = "evolved"]
    /\ created' = created + 1
    /\ UNCHANGED <<snap, at_start, released, disk, deleted>>

WithMaxDoc(t, r, max_doc) ==
    Evolve(t, r, "with_max_doc", <<max_doc>>,
           WithMaxDocInner(records[r], max_doc))

WithDeleteMeta(t, r, num_deleted_docs, opstamp) ==
    Evolve(t, r, "with_delete_meta", <<num_deleted_docs, opstamp>>,
           WithDeleteMetaInner(records[r], num_deleted_docs, opstamp))

\* An evolution that never drops the handle it consumed.
EvolveReturn_Forget(t) ==
    /\ pc[t] = "evolved"
    /\ handles' = [handles EXCEPT ![t][evo[t].new] = 1]
    /\ evo' = [evo EXCEPT ![t] = NoEvo]
    /\ pc' = [pc EXCEPT ![t] = "idle"]
    /\ UNCHANGED <<records, inventory, released, snap, at_start, created,
                   disk, deleted>>

\* An evolution whose new entry takes the place of the old one.
EvolveReturn_Replace(t) ==
    /\ pc[t] = "evolved"
    /\ inventory' = inventory \ {evo[t].old}
    /\ IF StrongCount(evo[t].old) = 1
       THEN /\ records' = [records EXCEPT ![evo[t].old] = Freed]
            /\ released' = released + 1
       ELSE UNCHANGED <<records, released>>
    /\ handles' = [handles EXCEPT ![t][evo[t].new] = 1]
    /\ evo' = [evo EXCEPT ![t] = NoEvo]
    /\ pc' = [pc EXCEPT ![t] = "idle"]
    /\ UNCHANGED <<snap, at_start, created, disk, deleted>>

\* The end of with_max_doc / with_delete_meta: self is dropped and the new
\* handle is returned to the caller.
EvolveReturn(t) ==
    /\ pc[t] = "evolved"
    /\ DropStrong(evo[t].old)
    /\ handles' = [handles EXCEPT ![t][evo[t].new] = 1]
    /\ evo' = [evo EXCEPT ![t] = NoEvo]
    /\ pc' = [pc EXCEPT ![t] = "idle"]
    /\ UNCHANGED <<snap, at_start, created, disk, deleted>>

\* SegmentMeta::all is called: INVENTORY is dereferenced.
AllCall(t) ==
    /\ pc[t] = "idle"
    /\ snap[t] = {}
    /\ pc' = [pc EXCEPT ![t] = "all"]
    /\ at_start' = [at_start EXCEPT ![t] = LiveRecs]
    /\ UNCHANGED <<records, inventory, handles, evo, snap, created, released,
                   disk, deleted>>

\* A snapshot that misses the oldest entry when there are several.
AllList_SkipsOne(t) ==
    /\ pc[t] = "all"
    /\ snap' = [snap EXCEPT ![t] =
                  IF Cardinality(inventory) > 1
                  THEN inventory \ {CHOOSE x \in inventory :
                                        \A y \in inventory : x <= y}
                  ELSE inventory]
    /\ pc' = [pc EXCEPT ![t] = "listed"]
    /\ UNCHANGED <<records, inventory, handles, evo, at_start, created,
                   released, disk, deleted>>

\* INVENTORY.list(), each entry wrapped in a SegmentMeta.
AllList(t) ==
    /\ pc[t] = "all"
    /\ snap' = [snap EXCEPT ![t] = inventory]
    /\ pc' = [pc EXCEPT ![t] = "listed"]
    /\ UNCHANGED <<records, inventory, handles, evo, at_start, created,
                   released, disk, deleted>>

\* The Vec is returned to a caller that keeps it.
AllReturn(t) ==
    /\ pc[t] = "listed"
    /\ pc' = [pc EXCEPT ![t] = "idle"]
    /\ at_start' = [at_start EXCEPT ![t] = {}]
    /\ UNCHANGED <<records, inventory, handles, evo, snap, created, released,
                   disk, deleted>>

\* A kept snapshot is dropped: a Vec drops its elements in order, one by one.
SnapDrop(t) ==
    /\ pc[t] = "idle"
    /\ snap[t] # {}
    /\ LET r == CHOOSE x \in snap[t] : \A y \in snap[t] : x <= y
       IN  /\ snap' = [snap EXCEPT ![t] = @ \ {r}]
           /\ DropStrong(r)
    /\ UNCHANGED <<handles, pc, evo, at_start, created, disk, deleted>>

----------------------------------------------------------------------------
(* The directory and its garbage collector, the users of all() and           *)
(* list_files().                                                             *)

\* A thread writes the files of a segment it holds a handle to.
WriteFiles(t, r) ==
    /\ pc[t] = "idle"
    /\ handles[t][r] > 0
    /\ disk' = disk \cup ListFiles(records[r])
    /\ UNCHANGED <<records, inventory, handles, pc, evo, snap, at_start,
                   created, released, deleted>>

\* The files the snapshot of thread t requires.
LivingFiles(t) == UNION {ListFiles(records[r]) : r \in snap[t]}

\* The collector, holding the snapshot all() returned, deletes every file
\* that no entry of the snapshot lists.
GcSweep(t) ==
    /\ pc[t] = "listed"
    /\ disk' = disk \cap LivingFiles(t)
    /\ deleted' = disk \ LivingFiles(t)
    /\ pc' = [pc EXCEPT ![t] = "idle"]
    /\ at_start' = [at_start EXCEPT ![t] = {}]
    /\ UNCHANGED <<records, inventory, handles, evo, snap, created, released>>

----------------------------------------------------------------------------
(* Specifications. *)

\* The steps by which thread t creates, clones, evolves and drops handles.
MutatorStep(t, ids, max_docs, delete_args, inputs) ==
    \/ \E s \in ids : New(t, s)
    \/ \E r \in Recs : Clone(t, r)
    \/ \E r \in Recs : Drop(t, r)
    \/ \E r \in Recs, n \in max_docs : WithMaxDoc(t, r, n)
    \/ \E r \in Recs, a \in delete_args : WithDeleteMeta(t, r, a[1], a[2])
    \/ EvolveReturn(t)
    \/ \E data \in inputs \cup {SerializeInner(records[r]) :
                                  r \in {x \in Recs : handles[t][x] > 0}} :
          Deserialize(t, data)

\* The steps by which thread t takes a snapshot and lets go of it.
ObserverStep(t) ==
    \/ AllCall(t)
    \/ AllList(t)
    \/ AllReturn(t)
    \/ SnapDrop(t)

\* Threads racing on the registry.
Next ==
    \E t \in Threads :
        \/ MutatorStep(t, SegmentIds, {100}, {<<10, 5>>}, {<<2, 100>>})
        \/ ObserverStep(t)

Spec == Init /\ [][Next]_vars

\* One thread, every input: the values the operations compute.
NextValues ==
    MutatorStep(1, SegmentIds, MaxDocVals, DeleteArgs, PersistedInputs)

SpecValues == Init /\ [][NextValues]_vars

\* Mutators writing segment files while thread GcThread collects garbage.
GcThread == NumThreads

NextGc ==
    \/ \E t \in Threads \ {GcThread} :
          \/ MutatorStep(t, SegmentIds, {100}, {<<10, 5>>}, {<<2, 100>>})
          \/ \E r \in Recs : WriteFiles(t, r)
    \/ AllCall(GcThread)
    \/ AllList(GcThread)
    \/ GcSweep(GcThread)
    \/ SnapDrop(GcThread)

SpecGc == Init /\ [][NextGc]_vars

----------------------------------------------------------------------------
(* Properties. *)

\* The step of thread t's all() at which INVENTORY.list() returns.
Lists(t) == pc[t] = "all" /\ pc'[t] = "listed"

\* The step at which thread t's evolution returns, dropping the old handle.
Returns(t) == pc[t] = "evolved" /\ pc'[t] = "idle"

\* The registered records of segment s.
EntriesOf(s) == {r \in inventory : Id(records[r]) = s}

\* The segment ids thread t holds a handle for, the handle moved into a
\* running evolution included.
HeldSegIds(t) ==
    {Id(records[r]) : r \in {x \in Recs : handles[t][x] > 0}}
        \cup (IF pc[t] = "evolved" THEN {Id(records[evo[t].old])} ELSE {})

\* C1: whatever the interleaving of the threads, when N records have been
\* created (new, deserialize, with_max_doc, with_delete_meta) and M of them
\* have had every handle dropped, the snapshot all() takes has exactly N - M
\* entries.
C1_AllCountsCreatedMinusDropped ==
    [][\A t \in Threads :
          Lists(t) => Cardinality(snap'[t]) = created - released]_vars

C1_Witness ==
    \E t, u \in Threads :
        /\ pc[t] = "listed"
        /\ pc[u] = "evolved"
        /\ created = 3
        /\ released = 1
        /\ Cardinality(snap[t]) = 2

\* C2 as stated: every record that had a live handle when all() was called
\* is in the snapshot, whether or not its last handle was dropped while the
\* call ran.
C2_StartedLiveAppears ==
    [][\A t \in Threads : Lists(t) => at_start[t] \subseteq snap'[t]]_vars

\* C2 as amended: every record that had a live handle when all() was called
\* and still has one when the snapshot is taken is in the snapshot, while
\* other threads track and drop other handles.
C2_HeldThroughoutAppears ==
    [][\A t \in Threads :
          Lists(t) => (at_start[t] \cap LiveRecs) \subseteq snap'[t]]_vars

C2_Witness ==
    \E t \in Threads :
        /\ pc[t] = "listed"
        /\ at_start[t] # {}
        /\ at_start[t] \subseteq snap[t]
        /\ snap[t] \ at_start[t] # {}
        /\ released > 0

\* C3: a collector that deletes every file outside the union of list_files()
\* over its all() snapshot deletes no file of a record that had a live handle
\* before the snapshot was started and still has one after the deletion,
\* whatever the other threads create, clone, evolve and drop meanwhile.
C3_GcKeepsFilesInUse ==
    [][(pc[GcThread] = "listed" /\ pc'[GcThread] = "idle") =>
          \A r \in at_start[GcThread] :
              StrongCount(r)' > 0 =>
                  /\ ListFiles(records[r]) \cap deleted' = {}
                  /\ ListFiles(records[r]) \cap disk \subseteq disk']_vars

C3_Witness ==
    /\ pc[GcThread] = "idle"
    /\ deleted # {}
    /\ \E r \in snap[GcThread], t \in Threads \ {GcThread} :
          /\ handles[t][r] > 0
          /\ ListFiles(records[r]) \subseteq disk

\* C4: a snapshot taken at any instant, in particular between the moment an
\* evolution has tracked the derived record and the moment it drops the
\* consumed handle, holds an entry for every segment id some thread holds a
\* handle for: the derived record is registered before the old one goes.
C4_NoCoverageGap ==
    [][\A u \in Threads :
          Lists(u) =>
              \A t \in Threads : \A s \in HeldSegIds(t) :
                  \E r \in snap'[u] : Id(records[r]) = s]_vars

C4_Witness ==
    \E t, u \in Threads :
        /\ pc[t] = "evolved"
        /\ pc[u] = "listed"
        /\ {evo[t].old, evo[t].new} \subseteq snap[u]
        /\ OwnedCount(evo[t].old) = 0

\* C5: a record is registered exactly as long as it has a strong reference
\* (a handle, a clone, a handle of a snapshot, a handle inside a running
\* call): dropping the last one removes the entry with no other action.
C5_RegisteredIffReferenced == inventory = LiveRecs

C5_Witness ==
    \E t \in Threads : \E r \in snap[t] :
        /\ OwnedCount(r) = 0
        /\ r \in inventory
        /\ pc[t] = "idle"
        /\ released > 0

\* C6: an evolution adds an entry and removes none that is still referenced:
\* when it returns, the derived record is registered, the record it was
\* derived from is still registered if another clone holds it, the two are
\* distinct entries, and every other entry is left in place.
C6_EvolutionKeepsReferencedEntries ==
    [][\A t \in Threads :
          Returns(t) =>
              /\ evo[t].new # evo[t].old
              /\ evo[t].new \in inventory'
              /\ inventory \ {evo[t].old} \subseteq inventory'
              /\ StrongCount(evo[t].old) > 1 =>
                    /\ evo[t].old \in inventory'
                    /\ records'[evo[t].old] = records[evo[t].old]]_vars

C6_Witness ==
    \E t \in Threads :
        /\ pc[t] = "idle"
        /\ inventory = {1, 2, 3}
        /\ OwnedCount(1) > 0
        /\ records[1] = InnerNew(1)
        /\ records[2] = InnerSegmentMeta(1, 100, None)
        /\ records[3] = InnerSegmentMeta(1, 100, None)
        /\ snap[t] = {1, 2, 3}

\* C7: when an evolution of the only handle of a segment returns (no clone,
\* no snapshot, no other record of that segment), exactly one entry of that
\* segment is registered, the derived one, and it carries the values just
\* given; the record reached by new -> with_max_doc(100) ->
\* with_delete_meta(10, 5) has num_docs 90, delete opstamp Some(5) and a
\* delete file named <uuid>.5.del.
C7_SoleHandleChain ==
    [][\A t \in Threads :
          (/\ Returns(t)
           /\ EntriesOf(Id(records[evo[t].old])) = {evo[t].old, evo[t].new}
           /\ StrongCount(evo[t].old) = 1
           /\ StrongCount(evo[t].new) = 1) =>
              LET s == Id(records[evo[t].old])
                  m == records'[evo[t].new]
              IN  /\ {r \in inventory' : Id(records'[r]) = s} = {evo[t].new}
                  /\ Id(m) = s
                  /\ evo[t].kind = "with_max_doc" => MaxDoc(m) = evo[t].arg[1]
                  /\ evo[t].kind = "with_delete_meta" =>
                        /\ NumDeletedDocs(m) = evo[t].arg[1]
                        /\ DeleteOpstamp(m) = Some(evo[t].arg[2])
                  /\ (MaxDoc(m) = 100 /\ m.deletes = Some(DeleteMeta(10, 5))) =>
                        /\ NumDocs(m, TRUE) = Some(U32Value(90))
                        /\ NumDocs(m, FALSE) = Some(U32Value(90))
                        /\ DeleteOpstamp(m) = Some(5)
                        /\ RelativePath(m, "DELETE") = UuidString(s) \o ".5.del"]_vars

C7_Witness ==
    \E t \in Threads :
        /\ pc[t] = "listed"
        /\ snap[t] = {3}
        /\ inventory = {3}
        /\ records[3] = InnerSegmentMeta(1, 100, Some(DeleteMeta(10, 5)))
        /\ created = 3
        /\ released = 2

\* C8: the record with_max_doc(n) derives is newly registered, has
\* max_doc n, and has the id, the number of deleted docs and the delete
\* opstamp of the handle it consumed.
C8_WithMaxDocFrame ==
    \A t \in Threads :
        (pc[t] = "evolved" /\ evo[t].kind = "with_max_doc") =>
            LET old == records[evo[t].old]
                new == records[evo[t].new]
            IN  /\ evo[t].new \in inventory
                /\ evo[t].new # evo[t].old
                /\ MaxDoc(new) = evo[t].arg[1]
                /\ Id(new) = Id(old)
                /\ NumDeletedDocs(new) = NumDeletedDocs(old)
                /\ DeleteOpstamp(new) = DeleteOpstamp(old)

C8_Witness ==
    \E t \in Threads :
        /\ pc[t] = "evolved"
        /\ evo[t].kind = "with_max_doc"
        /\ records[evo[t].old].deletes = Some(DeleteMeta(10, 5))
        /\ MaxDoc(records[evo[t].old]) = 100
        /\ evo[t].arg = <<5>>

\* C9: the record with_delete_meta(d, o) derives is newly registered, has
\* d deleted docs and delete opstamp Some(o), the id and max_doc of the
\* handle it consumed, and delete metadata made of (d, o) alone.
C9_WithDeleteMetaFrame ==
    \A t \in Threads :
        (pc[t] = "evolved" /\ evo[t].kind = "with_delete_meta") =>
            LET old == records[evo[t].old]
                new == records[evo[t].new]
            IN  /\ evo[t].new \in inventory
                /\ evo[t].new # evo[t].old
                /\ NumDeletedDocs(new) = evo[t].arg[1]
                /\ DeleteOpstamp(new) = Some(evo[t].arg[2])
                /\ Id(new) = Id(old)
                /\ MaxDoc(new) = MaxDoc(old)
                /\ new.deletes = Some(DeleteMeta(evo[t].arg[1], evo[t].arg[2]))

C9_Witness ==
    \E t \in Threads :
        /\ pc[t] = "evolved"
        /\ evo[t].kind = "with_delete_meta"
        /\ records[evo[t].old].deletes = Some(DeleteMeta(10, 5))
        /\ evo[t].arg = <<0, 0>>

\* C10 as stated: for every registered record, in every build, num_docs()
\* returns max_doc() - num_deleted_docs() as a u32.
C10_NumDocsIsDifference ==
    \A r \in inventory : \A overflow_checks \in BOOLEAN :
        NumDocs(records[r], overflow_checks)
            = Some(U32Value(MaxDoc(records[r]) - NumDeletedDocs(records[r])))

\* C10 as amended: for every registered record with num_deleted_docs() <=
\* max_doc(), num_docs() returns max_doc() - num_deleted_docs(); for the
\* others, which with_delete_meta and deserialize can produce, it panics in a
\* build with overflow checks and returns the difference modulo 2^32 in a
\* build without.
C10_NumDocsWithinContract ==
    \A r \in inventory :
        LET m == records[r]
        IN  IF NumDeletedDocs(m) <= MaxDoc(m)
            THEN \A overflow_checks \in BOOLEAN :
                    /\ NumDocs(m, overflow_checks)
                          = Some(U32Value(MaxDoc(m) - NumDeletedDocs(m)))
                    /\ NumDocs(m, overflow_checks)[1][1] * 65536
                          + NumDocs(m, overflow_checks)[1][2]
                          = MaxDoc(m) - NumDeletedDocs(m)
            ELSE /\ NumDocs(m, TRUE) = None
                 /\ NumDocs(m, FALSE)
                       = Some(<<65535,
                                65536 - (NumDeletedDocs(m) - MaxDoc(m))>>)

C10_Witness ==
    \E r, q \in inventory :
        /\ NumDeletedDocs(records[r]) > MaxDoc(records[r])
        /\ 0 < NumDeletedDocs(records[q])
        /\ NumDeletedDocs(records[q]) < MaxDoc(records[q])

\* C11: deserializing what serializing a handle wrote gives a handle with the
\* same id, max_doc, num_deleted_docs and delete_opstamp, on a record of its
\* own that is registered next to the original's: the registry grows by one
\* entry and the original's entry stays.
C11_RoundTripRegistersFresh ==
    [][\A t \in Threads : \A r \in Recs :
          (handles[t][r] > 0 /\ Deserialize(t, SerializeInner(records[r])))
              => LET fresh == Len(records) + 1
                 IN  /\ Len(records') = fresh
                     /\ handles'[t][fresh] = 1
                     /\ Id(records'[fresh]) = Id(records[r])
                     /\ MaxDoc(records'[fresh]) = MaxDoc(records[r])
                     /\ NumDeletedDocs(records'[fresh])
                            = NumDeletedDocs(records[r])
                     /\ DeleteOpstamp(records'[fresh])
                            = DeleteOpstamp(records[r])
                     /\ fresh # r
                     /\ {r, fresh} \subseteq inventory'
                     /\ Cardinality(inventory') = Cardinality(inventory) + 1
      ]_vars

\* A handle with delete metadata and the handle deserialized from it, both
\* held and both registered.
C11_Witness ==
    /\ Len(records) = 3
    /\ records[1] = Freed
    /\ records[2] = InnerSegmentMeta(2, 0, Some(DeleteMeta(10, 5)))
    /\ records[3] = records[2]
    /\ handles[1][2] = 1
    /\ handles[1][3] = 1
    /\ inventory = {2, 3}

C13_HasDeletesIffDeleteMeta ==
    \A r \in inventory :
        HasDeletes(records[r]) <=> DeleteOpstamp(records[r]) # None

\* C14: the handle new(segment_id) returns has that id, max_doc 0, no deleted
\* document, has_deletes false and no delete opstamp, and its record is in
\* the registry, hence in what all() lists, when new returns.
C14_NewIsEmptyAndRegistered ==
    [][\A t \in Threads : \A s \in SegmentIds :
          New(t, s)
              => LET fresh == Len(records) + 1
                 IN  /\ handles'[t][fresh] = 1
                     /\ Id(records'[fresh]) = s
                     /\ MaxDoc(records'[fresh]) = 0
                     /\ NumDeletedDocs(records'[fresh]) = 0
                     /\ ~HasDeletes(records'[fresh])
                     /\ DeleteOpstamp(records'[fresh]) = None
                     /\ fresh \in inventory'
                     /\ inventory \subseteq inventory'
      ]_vars

\* new(2) has returned next to an evolved version of segment 1.
C14_Witness ==
    /\ Len(records) = 3
    /\ records[2] = InnerSegmentMeta(1, 100, None)
    /\ records[3] = InnerNew(2)
    /\ handles[1][3] = 1
    /\ {2, 3} \subseteq inventory

\* The seven file names of segment segment_id whose delete file carries
\* opstamp.
PathsOf(segment_id, opstamp) ==
    {UuidString(segment_id) \o suffix :
        suffix \in {".pos", ".idx", ".term", ".store", ".fast", ".fieldnorm",
                    "." \o ToString(opstamp) \o ".del"}}

\* C15: for every registered record, list_files() has exactly seven paths,
\* one per component and equal to relative_path of that component, and the
\* paths are a function of id() and delete_opstamp().unwrap_or(0) alone.
C15_ListFilesSevenPaths ==
    \A r \in inventory :
        LET m == records[r]
            files == ListFiles(m)
        IN  /\ Cardinality(files) = 7
            /\ Cardinality(SegmentComponents) = 7
            /\ \A c \in SegmentComponents : RelativePath(m, c) \in files
            /\ files = PathsOf(Id(m), UnwrapOr(DeleteOpstamp(m), 0))

\* Two versions of a segment with different max_doc, one without delete
\* metadata and one with opstamp 0, listing the same seven files, and a
\* third with opstamp 5.
C15_Witness ==
    \E r, q, p \in inventory :
        /\ Id(records[r]) = Id(records[q])
        /\ MaxDoc(records[r]) # MaxDoc(records[q])
        /\ DeleteOpstamp(records[r]) = None
        /\ DeleteOpstamp(records[q]) = Some(0)
        /\ DeleteOpstamp(records[p]) = Some(5)
        /\ ListFiles(records[r]) = ListFiles(records[q])
        /\ ListFiles(records[p]) # ListFiles(records[q])

\* C17: two registered versions of the same segment whose delete_opstamp()
\* differ, one of them being None included, have different delete-bitmap
\* paths.
C17_DeletePathUniquePerOpstamp ==
    \A r, q \in inventory :
        (Id(records[r]) = Id(records[q])
            /\ DeleteOpstamp(records[r]) # DeleteOpstamp(records[q]))
            => RelativePath(records[r], "DELETE")
                   # RelativePath(records[q], "DELETE")

\* C17, amended: two registered versions of the same segment have different
\* delete-bitmap paths exactly when their delete_opstamp().unwrap_or(0)
\* differ; a version without delete metadata and one with opstamp 0 share
\* the path.
C17_DeletePathUniquePerOpstampOrZero ==
    \A r, q \in inventory :
        Id(records[r]) = Id(records[q])
            => ((UnwrapOr(DeleteOpstamp(records[r]), 0)
                     # UnwrapOr(DeleteOpstamp(records[q]), 0))
                  <=> (RelativePath(records[r], "DELETE")
                          # RelativePath(records[q], "DELETE")))

\* Three versions of one segment held together: no delete metadata, opstamp
\* 0 and opstamp 5; the first two name the same delete file, the third
\* another one.
C17_Witness ==
    \E r, q, p \in inventory :
        /\ handles[1][r] > 0 /\ handles[1][q] > 0 /\ handles[1][p] > 0
        /\ Id(records[r]) = Id(records[q])
        /\ Id(records[q]) = Id(records[p])
        /\ DeleteOpstamp(records[r]) = None
        /\ DeleteOpstamp(records[q]) = Some(0)
        /\ DeleteOpstamp(records[p]) = Some(5)
        /\ RelativePath(records[r], "DELETE")
               = RelativePath(records[q], "DELETE")
        /\ RelativePath(records[p], "DELETE")
               # RelativePath(records[q], "DELETE")

\* C18: a record that is registered before and after a step, hence read
\* through a handle, a clone or a snapshot entry, has the same field values
\* after the step as before, hence the same id, max_doc, num_deleted_docs,
\* delete_opstamp and list_files, whatever thread took the step and whatever
\* it evolved.
C18_RecordsNeverMutated ==
    [][\A r \in Recs :
          (r \in inventory /\ r \in inventory')
              => records'[r] = records[r]
      ]_vars

\* A fresh record still read through a handle of one thread and a snapshot
\* entry of the other, after a clone of it was evolved into a registered
\* record with other values.
C18_Witness ==
    \E r, q \in inventory : \E t, u \in Threads :
        /\ r < q
        /\ t # u
        /\ handles[t][r] > 0
        /\ r \in snap[u]
        /\ handles[u][q] > 0
        /\ records[r] = InnerNew(Id(records[q]))
        /\ MaxDoc(records[q]) = 100

\* C19: when with_max_doc has derived a record, its list_files() is that of
\* the consumed handle; when with_delete_meta has, the six paths other than
\* the delete bitmap's are those of the consumed handle.
C19_FileFootprintFrame ==
    \A t \in Threads :
        pc[t] = "evolved"
            => LET old == records[evo[t].old]
                   new == records[evo[t].new]
               IN  /\ evo[t].kind = "with_max_doc"
                          => ListFiles(new) = ListFiles(old)
                   /\ evo[t].kind = "with_delete_meta"
                          => \A c \in SegmentComponents \ {"DELETE"} :
                                RelativePath(new, c) = RelativePath(old, c)

\* with_delete_meta(0, 0) has derived a record from a handle with max_doc 5
\* and opstamp 5: the delete-bitmap path is the only one that changed.
C19_Witness ==
    /\ pc[1] = "evolved"
    /\ evo[1].kind = "with_delete_meta"
    /\ evo[1].arg = <<0, 0>>
    /\ MaxDoc(records[evo[1].old]) = 5
    /\ DeleteOpstamp(records[evo[1].old]) = Some(5)
    /\ RelativePath(records[evo[1].new], "DELETE")
           # RelativePath(records[evo[1].old], "DELETE")
    /\ Cardinality(ListFiles(records[evo[1].new])
                       \cap ListFiles(records[evo[1].old])) = 6

\* C20: a clone is one more handle on the same record and leaves the
\* registry as it is; the snapshot all() takes has one entry per record that
\* has a strong reference, however many handles share it, and taking it
\* adds no entry.
C20_CloneSharesRecord ==
    [][\A t \in Threads :
          /\ \A r \in Recs :
                Clone(t, r)
                    => /\ handles'[t][r] = handles[t][r] + 1
                       /\ records' = records
                       /\ inventory' = inventory
          /\ Lists(t)
                => /\ snap'[t] = LiveRecs
                   /\ inventory' = inventory
      ]_vars

\* A snapshot of one entry, taken while two handles share the only record.
C20_Witness ==
    \E t, u \in Threads : \E r \in Recs :
        /\ t # u
        /\ pc[t] = "listed"
        /\ snap[t] = {r}
        /\ handles[u][r] = 2
        /\ inventory = {r}
        /\ Len(records) = 1

====
